---- MODULE Spec2Model ----
(***************************************************************************)
(* AddVariableDialog (ui-v2/src/components/variables/add-variable-dialog)  *)
(* as a state machine: the react-hook-form state (values, errors,          *)
(* isSubmitted), the useMutation observer (status, the mutations in        *)
(* flight), the host's open flag and the rendered submit button.           *)
(* One action per browser task: a field edit, a submit event, a close      *)
(* request of the dialog widget, the host toggling its flag, a create      *)
(* call settling, and the re-render that follows a mutation update.        *)
(***************************************************************************)
EXTENDS Integers, Sequences, FiniteSets, TLC

VARIABLES open, form, errors, isSubmitted, inflight, status, disabled,
          notify, last

vars == <<open, form, errors, isSubmitted, inflight, status, disabled,
          notify, last>>

(* Most mutations that may be unsettled at once in the model. *)
MaxInFlight == 2

-----------------------------------------------------------------------------
(* Texts are sequences of one-character strings, so that the parser can    *)
(* read them character by character.                                       *)

TxtEmpty == <<>>
(* {"a":1, "a":[2, 10]} with a blank before and after *)
TxtObject == <<" ", "{", "\"", "a", "\"", ":", "1", ",", " ", "\"", "a", "\"",
               ":", "[", "2", ",", " ", "1", "0", "]", "}", " ">>
TxtNotJson == <<"n", "o", "t", " ", "j", "s", "o", "n">>
TxtLeadingZero == <<"0", "1">>

Digits == <<"0", "1", "2", "3", "4", "5", "6", "7", "8", "9">>

IsDigit(c) == \E d \in 1..10 : Digits[d] = c

DigitVal(c) == (CHOOSE d \in 1..10 : Digits[d] = c) - 1

IsWs(c) == c \in {" ", "\n", "\t", "\r"}

(* A parsed JSON value: a node of one shape whatever its type. *)
Node(t, n, s, items) == [t |-> t, n |-> n, s |-> s, items |-> items]

NullNode == Node("null", 0, <<>>, <<>>)

ParseFail == [ok |-> FALSE, val |-> NullNode, next |-> 0]

ParseOk(v, i) == [ok |-> TRUE, val |-> v, next |-> i]

RECURSIVE SkipWs(_, _)
SkipWs(s, i) == IF i <= Len(s) /\ IsWs(s[i]) THEN SkipWs(s, i + 1) ELSE i

HasAt(s, i, w) == /\ i + Len(w) - 1 <= Len(s)
                  /\ \A k \in 1..Len(w) : s[i + k - 1] = w[k]

RECURSIVE ParseDigits(_, _, _)
ParseDigits(s, i, acc) ==
    IF i <= Len(s) /\ IsDigit(s[i])
    THEN ParseDigits(s, i + 1, acc * 10 + DigitVal(s[i]))
    ELSE ParseOk(Node("num", acc, <<>>, <<>>), i)

(* JSON numbers: a lone 0 or a digit 1-9 followed by digits; no leading 0. *)
ParseNumber(s, i) ==
    IF s[i] = "0"
    THEN ParseOk(Node("num", 0, <<>>, <<>>), i + 1)
    ELSE ParseDigits(s, i, 0)

RECURSIVE ParseChars(_, _, _)
ParseChars(s, i, acc) ==
    IF i > Len(s) THEN ParseFail
    ELSE IF s[i] = "\"" THEN ParseOk(Node("str", 0, acc, <<>>), i + 1)
    ELSE IF s[i] = "\\" THEN ParseFail
    ELSE ParseChars(s, i + 1, Append(acc, s[i]))

(* Object members keep the position of a key's first occurrence and the    *)
(* value of its last one.                                                  *)
PutMember(members, m) ==
    IF \E k \in 1..Len(members) : members[k].s = m.s
    THEN [k \in 1..Len(members) |->
             IF members[k].s = m.s THEN m ELSE members[k]]
    ELSE Append(members, m)

RECURSIVE ParseValue(_, _), ParseElems(_, _, _), ParseMembers(_, _, _)

ParseValue(s, i0) ==
    LET i == SkipWs(s, i0) IN
    IF i > Len(s) THEN ParseFail
    ELSE IF HasAt(s, i, <<"t", "r", "u", "e">>)
         THEN ParseOk(Node("true", 0, <<>>, <<>>), i + 4)
    ELSE IF HasAt(s, i, <<"f", "a", "l", "s", "e">>)
         THEN ParseOk(Node("false", 0, <<>>, <<>>), i + 5)
    ELSE IF HasAt(s, i, <<"n", "u", "l", "l">>)
         THEN ParseOk(NullNode, i + 4)
    ELSE IF IsDigit(s[i]) THEN ParseNumber(s, i)
    ELSE IF s[i] = "\"" THEN ParseChars(s, i + 1, <<>>)
    ELSE IF s[i] = "["
         THEN LET j == SkipWs(s, i + 1) IN
              IF j <= Len(s) /\ s[j] = "]"
              THEN ParseOk(Node("arr", 0, <<>>, <<>>), j + 1)
              ELSE ParseElems(s, i + 1, <<>>)
    ELSE IF s[i] = "{"
         THEN LET j == SkipWs(s, i + 1) IN
              IF j <= Len(s) /\ s[j] = "}"
              THEN ParseOk(Node("obj", 0, <<>>, <<>>), j + 1)
              ELSE ParseMembers(s, i + 1, <<>>)
    ELSE ParseFail

ParseElems(s, i, acc) ==
    LET r == ParseValue(s, i) IN
    IF ~r.ok THEN ParseFail
    ELSE LET j == SkipWs(s, r.next)
             items == Append(acc, r.val) IN
         IF j > Len(s) THEN ParseFail
         ELSE IF s[j] = "," THEN ParseElems(s, j + 1, items)
         ELSE IF s[j] = "]" THEN ParseOk(Node("arr", 0, <<>>, items), j + 1)
         ELSE ParseFail

ParseMembers(s, i0, acc) ==
    LET i == SkipWs(s, i0) IN
    IF i > Len(s) \/ s[i] # "\"" THEN ParseFail
    ELSE LET k == ParseChars(s, i + 1, <<>>) IN
         IF ~k.ok THEN ParseFail
         ELSE LET c == SkipWs(s, k.next) IN
              IF c > Len(s) \/ s[c] # ":" THEN ParseFail
              ELSE LET r == ParseValue(s, c + 1) IN
                   IF ~r.ok THEN ParseFail
                   ELSE LET j == SkipWs(s, r.next)
                            items == PutMember(acc,
                                Node("mem", 0, k.val.s, <<r.val>>)) IN
                        IF j > Len(s) THEN ParseFail
                        ELSE IF s[j] = ","
                             THEN ParseMembers(s, j + 1, items)
                        ELSE IF s[j] = "}"
                             THEN ParseOk(Node("obj", 0, <<>>, items), j + 1)
                        ELSE ParseFail

(* JSON.parse: one value, blanks around it, nothing after it; ok = FALSE   *)
(* is the SyntaxError it throws.                                           *)
JSONParse(s) ==
    LET r == ParseValue(s, 1) IN
    IF r.ok /\ SkipWs(s, r.next) > Len(s) THEN r ELSE ParseFail

-----------------------------------------------------------------------------
(* Form values, error slots and the schema.                                *)

NameMessage == "Name must be at least 2 characters"
TagsMessage == "Tags must be at least 2 characters"
ValueMessage == "Value must be valid JSON"

(* The tags value: a list, or absent (undefined), which the schema allows. *)
TagList(l) == [present |-> TRUE, list |-> l]
AbsentTags == [present |-> FALSE, list |-> <<>>]

defaultValues == [name |-> "", value |-> TxtEmpty, tags |-> TagList(<<>>)]

NoError == [has |-> FALSE, message |-> ""]
Error(m) == [has |-> TRUE, message |-> m]
NoErrors == [name |-> NoError, value |-> NoError, tags |-> NoError,
             root |-> NoError]

(* What the user can type or pick. *)
Names == {"", "F", "Foo"}
ValueTexts == {TxtEmpty, TxtObject, TxtNotJson, TxtLeadingZero}
TagValues == {AbsentTags, TagList(<<>>), TagList(<<"xy">>),
              TagList(<<"xy", "z">>)}
RemoteMessages == {"Variable already exists", "Network error"}

(* formSchema with the name rule off by one: min(1). *)
formSchema_NameMin1(values) ==
    [name  |-> IF Len(values.name) < 1 THEN Error(NameMessage) ELSE NoError,
     value |-> NoError,
     tags  |-> IF /\ values.tags.present
                  /\ \E k \in 1..Len(values.tags.list) :
                         Len(values.tags.list[k]) < 2
               THEN Error(TagsMessage) ELSE NoError,
     root  |-> NoError]

(* formSchema with the tag rule applied to the first tag only. *)
formSchema_FirstTagOnly(values) ==
    [name  |-> IF Len(values.name) < 2 THEN Error(NameMessage) ELSE NoError,
     value |-> NoError,
     tags  |-> IF /\ values.tags.present
                  /\ Len(values.tags.list) > 0
                  /\ Len(values.tags.list[1]) < 2
               THEN Error(TagsMessage) ELSE NoError,
     root  |-> NoError]

(* zodResolver(formSchema): the errors of one validation pass. *)
formSchema(values) ==
    [name  |-> IF Len(values.name) < 2 THEN Error(NameMessage) ELSE NoError,
     value |-> NoError,
     tags  |-> IF /\ values.tags.present
                  /\ \E k \in 1..Len(values.tags.list) :
                         Len(values.tags.list[k]) < 2
               THEN Error(TagsMessage) ELSE NoError,
     root  |-> NoError]

setError(errs, field, message) == [errs EXCEPT ![field] = Error(message)]

isPending == status = "pending"

(* What the last step was: the operation, the create calls it issued, the  *)
(* text it carried, and for a settling call whether the dialog had been    *)
(* closed since that call was issued.                                      *)
Step(op, issued, message, late) ==
    [op |-> op, issued |-> issued, message |-> message, late |-> late]

-----------------------------------------------------------------------------
Init ==
    /\ open \in BOOLEAN
    /\ form = defaultValues
    /\ errors = NoErrors
    /\ isSubmitted = FALSE
    /\ inflight = <<>>
    /\ status = "idle"
    /\ disabled = FALSE
    /\ notify = <<>>
    /\ last = Step("init", 0, "", FALSE)

(* mutate(): a new mutation becomes the one the observer follows; the one  *)
(* before it, if unsettled, keeps running unobserved.                      *)
createVariable(variable) ==
    /\ Len(inflight) < MaxInFlight
    /\ inflight' = Append([k \in 1..Len(inflight) |->
                              [inflight[k] EXCEPT !.observed = FALSE]],
                          [variable |-> variable, observed |-> TRUE,
                           closedSince |-> FALSE])
    /\ status' = "pending"

(* onSubmit passing null instead of the parsed value. *)
onSubmit_NullValue(values) ==
    LET parsed == JSONParse(values.value) IN
    IF parsed.ok
    THEN /\ createVariable([name |-> values.name, value |-> NullNode,
                            tags |-> values.tags])
         /\ errors' = NoErrors
    ELSE /\ errors' = setError(NoErrors, "value", ValueMessage)
         /\ UNCHANGED <<inflight, status>>

(* onSubmit attaching the parse error to the form root. *)
onSubmit_RootError(values) ==
    LET parsed == JSONParse(values.value) IN
    IF parsed.ok
    THEN /\ createVariable([name |-> values.name, value |-> parsed.val,
                            tags |-> values.tags])
         /\ errors' = NoErrors
    ELSE /\ errors' = setError(NoErrors, "root", ValueMessage)
         /\ UNCHANGED <<inflight, status>>

(* try { createVariable({name, value: JSON.parse(values.value), tags}) }   *)
(* catch { setError("value") }; errors are those handleSubmit left: none.  *)
onSubmit(values) ==
    LET parsed == JSONParse(values.value) IN
    IF parsed.ok
    THEN /\ createVariable([name |-> values.name, value |-> parsed.val,
                            tags |-> values.tags])
         /\ errors' = NoErrors
    ELSE /\ errors' = setError(NoErrors, "value", ValueMessage)
         /\ UNCHANGED <<inflight, status>>

(* handleSubmit running the JSON parser even when the schema has failed. *)
handleSubmit_ParseAlways ==
    LET schemaErrors == formSchema(form) IN
    /\ IF schemaErrors = NoErrors
       THEN onSubmit(form)
       ELSE /\ errors' = IF JSONParse(form.value).ok THEN schemaErrors
                         ELSE setError(schemaErrors, "value", ValueMessage)
            /\ UNCHANGED <<inflight, status>>
    /\ isSubmitted' = TRUE
    /\ disabled' = isPending'
    /\ notify' = <<>>
    /\ last' = Step("submit", Len(inflight') - Len(inflight), "", FALSE)
    /\ UNCHANGED <<open, form>>

(* handleSubmit marking the submission pending before it validates, and    *)
(* leaving it so when validation or parsing fails.                         *)
handleSubmit_PendingBeforeValidation ==
    LET schemaErrors == formSchema(form) IN
    /\ IF schemaErrors = NoErrors /\ JSONParse(form.value).ok
       THEN onSubmit(form)
       ELSE /\ errors' = IF schemaErrors = NoErrors
                         THEN setError(NoErrors, "value", ValueMessage)
                         ELSE schemaErrors
            /\ status' = "pending"
            /\ UNCHANGED inflight
    /\ isSubmitted' = TRUE
    /\ disabled' = isPending'
    /\ notify' = <<>>
    /\ last' = Step("submit", Len(inflight') - Len(inflight), "", FALSE)
    /\ UNCHANGED <<open, form>>

(* form.handleSubmit(onSubmit): the errors become those of the schema, the *)
(* root error is dropped, and onSubmit runs only when the schema passes.   *)
(* The form state update re-renders the component within the submit        *)
(* event's task, so the button is drawn with the isPending of that moment. *)
handleSubmit ==
    LET schemaErrors == formSchema(form) IN
    /\ IF schemaErrors = NoErrors
       THEN onSubmit(form)
       ELSE /\ errors' = schemaErrors
            /\ UNCHANGED <<inflight, status>>
    /\ isSubmitted' = TRUE
    /\ disabled' = isPending'
    /\ notify' = <<>>
    /\ last' = Step("submit", Len(inflight') - Len(inflight), "", FALSE)
    /\ UNCHANGED <<open, form>>

(* The Create button, or Enter in the name field: only while the button is *)
(* rendered enabled.                                                       *)
ClickCreate ==
    /\ open
    /\ ~disabled
    /\ handleSubmit

(* A submit event dispatched at the form itself (requestSubmit, a          *)
(* re-entrant trigger): the form's onSubmit does not look at the button.   *)
SubmitEvent ==
    /\ open
    /\ disabled
    /\ handleSubmit

(* History kept with each unsettled call: whether the dialog has been     *)
(* closed since the call was issued.                                       *)
MarkClosed(calls) ==
    [k \in 1..Len(calls) |-> [calls[k] EXCEPT !.closedSince = TRUE]]

(* onClose notifying the host before it resets the form. *)
onClose_NotifyFirst ==
    LET beforeReset == form IN
    /\ notify' = <<[isOpen |-> FALSE, seen |-> beforeReset]>>
    /\ open' = FALSE
    /\ form' = defaultValues
    /\ errors' = NoErrors
    /\ isSubmitted' = FALSE

(* form.reset() then onOpenChange(false); the host stores the flag it is   *)
(* given. seen is the form as the host finds it when it is called.         *)
onClose ==
    LET afterReset == defaultValues IN
    /\ form' = afterReset
    /\ errors' = NoErrors
    /\ isSubmitted' = FALSE
    /\ notify' = <<[isOpen |-> FALSE, seen |-> afterReset]>>
    /\ open' = FALSE

(* The dialog's onOpenChange wired to the host's directly: the reported    *)
(* value is passed on, and the form is reset only on a close.              *)
DialogOpenChange_PassThrough ==
    /\ open
    /\ \E reported \in BOOLEAN :
          /\ last' = Step("close", 0, IF reported THEN "true" ELSE "false",
                          FALSE)
          /\ IF reported
             THEN /\ notify' = <<[isOpen |-> TRUE, seen |-> form]>>
                  /\ UNCHANGED <<open, form, errors, isSubmitted, inflight>>
             ELSE /\ onClose
                  /\ inflight' = MarkClosed(inflight)
    /\ disabled' = isPending
    /\ UNCHANGED status

(* The dialog widget asks to change its open state (Close button, Escape,  *)
(* click outside), reporting the value it wants.                           *)
DialogOpenChange ==
    /\ open
    /\ \E reported \in BOOLEAN :
          last' = Step("close", 0, IF reported THEN "true" ELSE "false", FALSE)
    /\ onClose
    /\ disabled' = isPending
    /\ inflight' = MarkClosed(inflight)
    /\ UNCHANGED status

HostOpen ==
    /\ ~open
    /\ open' = TRUE
    /\ disabled' = isPending
    /\ notify' = <<>>
    /\ last' = Step("open", 0, "", FALSE)
    /\ UNCHANGED <<form, errors, isSubmitted, inflight, status>>

(* The host clears its flag on its own, without the dialog asking. *)
HostClose ==
    /\ open
    /\ open' = FALSE
    /\ disabled' = isPending
    /\ notify' = <<>>
    /\ last' = Step("hostClose", 0, "", FALSE)
    /\ inflight' = MarkClosed(inflight)
    /\ UNCHANGED <<form, errors, isSubmitted, status>>

(* Change revalidating the whole form: the errors become the schema's. *)
Change_RevalidateAll(field, v) ==
    /\ open
    /\ form[field] # v
    /\ form' = [form EXCEPT ![field] = v]
    /\ errors' = IF isSubmitted THEN formSchema(form') ELSE errors
    /\ notify' = <<>>
    /\ last' = Step("change", 0, field, FALSE)
    /\ UNCHANGED <<open, isSubmitted, inflight, status, disabled>>

(* Change without revalidation (errors wait for the next submit). *)
Change_NoRevalidate(field, v) ==
    /\ open
    /\ form[field] # v
    /\ form' = [form EXCEPT ![field] = v]
    /\ errors' = errors
    /\ notify' = <<>>
    /\ last' = Step("change", 0, field, FALSE)
    /\ UNCHANGED <<open, isSubmitted, inflight, status, disabled>>

(* Change with the requests in flight sharing the form's name and tags. *)
Change_SharedRequest(field, v) ==
    /\ open
    /\ form[field] # v
    /\ form' = [form EXCEPT ![field] = v]
    /\ errors' = IF isSubmitted
                 THEN [errors EXCEPT ![field] = formSchema(form')[field]]
                 ELSE errors
    /\ inflight' = IF field = "value" THEN inflight
                   ELSE [k \in 1..Len(inflight) |->
                            [inflight[k] EXCEPT !.variable[field] = v]]
    /\ notify' = <<>>
    /\ last' = Step("change", 0, field, FALSE)
    /\ UNCHANGED <<open, isSubmitted, status, disabled>>

(* A field's onChange: the value is stored, and once the form has been     *)
(* submitted the field is revalidated against the schema.                  *)
Change(field, v) ==
    /\ open
    /\ form[field] # v
    /\ form' = [form EXCEPT ![field] = v]
    /\ errors' = IF isSubmitted
                 THEN [errors EXCEPT ![field] = formSchema(form')[field]]
                 ELSE errors
    /\ notify' = <<>>
    /\ last' = Step("change", 0, field, FALSE)
    /\ UNCHANGED <<open, isSubmitted, inflight, status, disabled>>

ChangeName == \E v \in Names : Change("name", v)

ChangeValue == \E v \in ValueTexts : Change("value", v)

ChangeTags == \E v \in TagValues : Change("tags", v)

Remove(seq, k) == SubSeq(seq, 1, k - 1) \o SubSeq(seq, k + 1, Len(seq))

(* A create call resolves: onSuccess runs, then the observer is told if it *)
(* still follows this mutation. The callbacks are those of the useMutation *)
(* options, so they run for every call, followed by the observer or not.   *)
(* The button is redrawn in a later task (Render).                         *)
Succeed ==
    \E k \in 1..Len(inflight) :
        /\ onClose
        /\ status' = IF inflight[k].observed THEN "success" ELSE status
        /\ inflight' = MarkClosed(Remove(inflight, k))
        /\ last' = Step("success", 0, "", inflight[k].closedSince)
        /\ UNCHANGED disabled

(* Fail with one automatic retry: the rejected call is issued again and    *)
(* stays in flight, nothing is reported.                                   *)
Fail_Retry ==
    \E k \in 1..Len(inflight), message \in RemoteMessages :
        /\ inflight' = inflight
        /\ notify' = <<>>
        /\ last' = Step("error", 1, message, inflight[k].closedSince)
        /\ UNCHANGED <<open, form, errors, isSubmitted, status, disabled>>

(* A create call rejects with an error carrying a message. *)
Fail ==
    \E k \in 1..Len(inflight), message \in RemoteMessages :
        /\ errors' = setError(errors, "root", message)
        /\ status' = IF inflight[k].observed THEN "error" ELSE status
        /\ inflight' = Remove(inflight, k)
        /\ notify' = <<>>
        /\ last' = Step("error", 0, message, inflight[k].closedSince)
        /\ UNCHANGED <<open, form, isSubmitted, disabled>>

(* The re-render after a mutation update: the button follows isPending. *)
Render ==
    /\ disabled # isPending
    /\ disabled' = isPending
    /\ notify' = <<>>
    /\ last' = Step("render", 0, "", FALSE)
    /\ UNCHANGED <<open, form, errors, isSubmitted, inflight, status>>

Next ==
    \/ ClickCreate
    \/ SubmitEvent
    \/ DialogOpenChange
    \/ HostOpen
    \/ HostClose
    \/ ChangeName
    \/ ChangeValue
    \/ ChangeTags
    \/ Succeed
    \/ Fail
    \/ Render

Spec == Init /\ [][Next]_vars

-----------------------------------------------------------------------------
(* Properties.                                                             *)

ShortTag(values) ==
    /\ values.tags.present
    /\ \E k \in 1..Len(values.tags.list) : Len(values.tags.list[k]) < 2

ValidInput(values) ==
    /\ Len(values.name) >= 2
    /\ ~ShortTag(values)
    /\ JSONParse(values.value).ok

Request(values) ==
    [name |-> values.name, value |-> JSONParse(values.value).val,
     tags |-> values.tags]

Closed == <<[isOpen |-> FALSE, seen |-> defaultValues]>>

(* C1: in every reachable state at most one create request is in flight;   *)
(* a submit that arrives while Pending issues no further create call.      *)
C1_AtMostOneInFlight == Len(inflight) <= 1

(* C2: when a create call settles after the dialog was closed while it was *)
(* Pending (reopened since or not), the form values, the error slots and   *)
(* the host's open flag are unchanged and onOpenChange is not invoked.     *)
C2_LateResultDiscarded ==
    [][(last'.op \in {"success", "error"} /\ last'.late)
          => (form' = form /\ errors' = errors /\ open' = open
              /\ notify' = <<>>)]_vars

(* C3: a submit from Idle with a name of length >= 2, tags all of length   *)
(* >= 2 and a value text that parses issues exactly one create call, whose *)
(* request is {name, parsed value, tags} of the form.                      *)
C3_ValidSubmitIssuesOneCall ==
    [][(last'.op = "submit" /\ ~isPending /\ ValidInput(form))
          => /\ Len(inflight') = Len(inflight) + 1
             /\ \A k \in 1..Len(inflight) :
                    inflight'[k].variable = inflight[k].variable
             /\ inflight'[Len(inflight')].variable = Request(form)]_vars

C3_Witness ==
    /\ last.op = "submit"
    /\ last.issued = 1
    /\ Len(inflight) = 1
    /\ inflight[1].variable.name = "Foo"
    /\ inflight[1].variable.value.t = "obj"
    /\ inflight[1].variable.tags = TagList(<<"xy">>)

(* C4: a submit with a name shorter than 2 attaches the name message to    *)
(* the name field and issues no create call; every request in flight has a *)
(* name of length >= 2.                                                    *)
C4_ShortNameRejected ==
    /\ (last.op = "submit" /\ Len(form.name) < 2)
          => (errors.name = Error(NameMessage) /\ last.issued = 0)
    /\ \A k \in 1..Len(inflight) : Len(inflight[k].variable.name) >= 2

C4_Witness ==
    /\ last.op = "submit"
    /\ form.name = "F"
    /\ errors.name = Error(NameMessage)
    /\ last.issued = 0

(* C5, as stated: every submit whose value text fails JSON parsing         *)
(* attaches "Value must be valid JSON" to the value field, not to the      *)
(* root, and issues no create call.                                        *)
C5_ParseErrorOnEverySubmit ==
    (last.op = "submit" /\ ~JSONParse(form.value).ok)
        => /\ errors.value = Error(ValueMessage)
           /\ ~errors.root.has
           /\ last.issued = 0

(* C5, amended: every submit that passes the schema and whose value text   *)
(* fails JSON parsing attaches "Value must be valid JSON" to the value     *)
(* field, not to the root; no submit whose value text fails parsing issues *)
(* a create call, and the request a submit issues carries the value parsed *)
(* from the form's value text.                                             *)
C5_ParseErrorAfterSchema ==
    /\ (last.op = "submit" /\ ~JSONParse(form.value).ok)
          => /\ last.issued = 0
             /\ ~errors.root.has
             /\ (Len(form.name) >= 2 /\ ~ShortTag(form))
                   => errors.value = Error(ValueMessage)
    /\ (last.op = "submit" /\ last.issued = 1)
          => /\ JSONParse(form.value).ok
             /\ inflight[Len(inflight)].variable.value
                    = JSONParse(form.value).val

C5_Witness ==
    /\ last.op = "submit"
    /\ form.name = "Foo"
    /\ form.value = TxtLeadingZero
    /\ errors.value = Error(ValueMessage)
    /\ last.issued = 0

(* C6: a submit whose tags contain an entry shorter than 2 attaches an     *)
(* error to tags and issues no create call; absent or empty tags get no    *)
(* error, and do not keep an otherwise valid submit from issuing its call. *)
C6_ShortTagRejected ==
    /\ (last.op = "submit" /\ ShortTag(form))
          => (errors.tags = Error(TagsMessage) /\ last.issued = 0)
    /\ (last.op = "submit" /\ form.tags \in {AbsentTags, TagList(<<>>)})
          => /\ ~errors.tags.has
             /\ (Len(form.name) >= 2 /\ JSONParse(form.value).ok)
                   => last.issued = 1

C6_Witness ==
    /\ last.op = "submit"
    /\ form.tags = TagList(<<"xy", "z">>)
    /\ form.name = "Foo"
    /\ errors.tags = Error(TagsMessage)
    /\ last.issued = 0

(* C7: after a create call succeeds while the dialog is open, the form     *)
(* values are the defaults, the host has been notified with                *)
(* onOpenChange(false) and the submission status is Idle.                  *)
C7_SuccessResetsAndIdles ==
    [][(last'.op = "success" /\ open)
          => (form' = defaultValues /\ notify' = Closed
              /\ status' # "pending")]_vars

(* C8: when a create call fails while the dialog is open, the root error   *)
(* is the failure's message, the form values are unchanged, the dialog     *)
(* stays open with onOpenChange not invoked, and the status is Idle again. *)
C8_FailureKeepsFormAndIdles ==
    [][(last'.op = "error" /\ open)
          => (errors'.root = Error(last'.message) /\ form' = form
              /\ open' /\ notify' = <<>> /\ status' # "pending")]_vars

(* C9: an explicit close and a successful submission both reset the form   *)
(* to the defaults before the host is notified with onOpenChange(false);   *)
(* an explicit close is possible whenever the dialog is open, whatever the *)
(* form holds and whatever the submission status.                          *)
C9_ResetThenNotify ==
    /\ last.op \in {"close", "success"}
          => (form = defaultValues /\ errors = NoErrors /\ notify = Closed
              /\ ~open)
    /\ open => ENABLED DialogOpenChange

C9_Witness ==
    /\ last.op = "close"
    /\ isPending
    /\ Len(inflight) = 1
    /\ notify = Closed
    /\ form = defaultValues

(* C10: whenever the dialog becomes open, the form values are the defaults *)
(* and no field or root error is shown.                                    *)
C10_OpensFromDefaults ==
    last.op = "open" => (form = defaultValues /\ errors = NoErrors)

(* C11: the status is Pending only while a create call is unsettled; a     *)
(* submit that passes validation and parsing makes it Pending; and once a  *)
(* create call settles, with the dialog open or closed, the status is Idle.*)
C11_PendingUntilSettled ==
    /\ [](isPending => Len(inflight) > 0)
    /\ [][(last'.op = "submit" /\ ValidInput(form)) => status' = "pending"]_vars
    /\ [][last'.op \in {"success", "error"} => status' # "pending"]_vars

(* C12: create calls are issued only by submits that passed validation and *)
(* parsing, at most one per submit; no other step, a failed create call    *)
(* included, issues a call or adds one to those in flight.                 *)
C12_NoAutomaticRetry ==
    [][/\ last'.issued <= (IF last'.op = "submit" /\ ValidInput(form)
                           THEN 1 ELSE 0)
       /\ Len(inflight') - Len(inflight) <= last'.issued
       /\ last'.op = "error" => Len(inflight') = Len(inflight) - 1]_vars

C12_Witness ==
    /\ last.op = "error"
    /\ last.issued = 0
    /\ Len(inflight) = 0
    /\ errors.root.has
    /\ open

(* C13: when the form's tags are absent at submit time, the create request *)
(* issued carries tags as the empty list; no request has absent tags.      *)
C13_AbsentTagsSentAsEmpty ==
    \A k \in 1..Len(inflight) : inflight[k].variable.tags.present

(* C14: a root error stays as it is across field edits, and goes away only *)
(* in a submit attempt, an explicit close or a successful submission.      *)
C14_RootErrorLifetime ==
    [][/\ last'.op = "change" => errors'.root = errors.root
       /\ (errors.root.has /\ ~errors'.root.has)
             => last'.op \in {"submit", "close", "success"}]_vars

C14_Witness ==
    /\ last.op = "change"
    /\ errors.root = Error("Variable already exists")
    /\ isSubmitted

(* C15: when a submit fails the schema (name or a tag too short), the JSON *)
(* parser is not run: the errors are exactly the schema's, so a too-short  *)
(* name with an unparsable value gets an error on name and none on value.  *)
C15_SchemaBeforeParser ==
    (last.op = "submit" /\ (Len(form.name) < 2 \/ ShortTag(form)))
        => /\ ~errors.value.has
           /\ errors.name.has = (Len(form.name) < 2)
           /\ errors.tags.has = ShortTag(form)

C15_Witness ==
    /\ last.op = "submit"
    /\ form.name = "F"
    /\ form.value = TxtNotJson
    /\ errors.name = Error(NameMessage)
    /\ ~errors.value.has

(* C16: a submit that fails the schema or the JSON parser leaves the form  *)
(* values, the status (Idle stays Idle), the calls in flight and the open  *)
(* dialog as they were, and does not invoke onOpenChange.                  *)
C16_LocalFailureFrame ==
    [][(last'.op = "submit" /\ ~ValidInput(form))
          => (form' = form /\ status' = status /\ inflight' = inflight
              /\ open /\ open' /\ notify' = <<>>)]_vars

C16_Witness ==
    /\ last.op = "submit"
    /\ form.name = "Foo"
    /\ form.tags = TagList(<<"xy">>)
    /\ form.value = TxtNotJson
    /\ errors.value.has
    /\ status = "idle"
    /\ open

(* C17: the request of a call in flight never changes: a field edit, like  *)
(* every step but a settling, leaves the requests in flight as they were,  *)
(* and a submit only adds the request built from the form it submits.      *)
C17_RequestIsSnapshot ==
    [][/\ last'.op = "change" => inflight' = inflight
       /\ last'.op \notin {"success", "error"}
             => \A k \in 1..Len(inflight) :
                    /\ k <= Len(inflight')
                    /\ inflight'[k].variable = inflight[k].variable
       /\ (last'.op = "submit" /\ last'.issued = 1)
             => inflight'[Len(inflight')].variable = Request(form)]_vars

C17_Witness ==
    /\ last.op = "change"
    /\ last.message = "name"
    /\ isPending
    /\ Len(inflight) = 1
    /\ inflight[1].variable.name = "Foo"
    /\ form.name = "F"

(* C18: when a field that has an error changes and passes the schema, its  *)
(* error is cleared by that change, without a submit, and the errors of    *)
(* the other fields and of the root are left as they were.                 *)
C18_FieldErrorClearedOnChange ==
    [][\A f \in {"name", "value", "tags"} :
          (last'.op = "change" /\ last'.message = f /\ errors[f].has
           /\ ~formSchema(form')[f].has)
             => /\ ~errors'[f].has
                /\ \A g \in {"name", "value", "tags", "root"} \ {f} :
                       errors'[g] = errors[g]]_vars

C18_Witness ==
    /\ last.op = "change"
    /\ last.message = "name"
    /\ form.name = "Foo"
    /\ ~errors.name.has
    /\ errors.value = Error(ValueMessage)

(* C19: every onOpenChange the component invokes passes false, whatever    *)
(* the dialog widget reported, and finds the form already reset.           *)
C19_OnlyAsksToClose ==
    /\ \A k \in 1..Len(notify) :
           ~notify[k].isOpen /\ notify[k].seen = defaultValues
    /\ notify # <<>> => (form = defaultValues /\ errors = NoErrors
                         /\ ~isSubmitted)
    /\ last.op = "close" => Len(notify) = 1

C19_Witness ==
    /\ last.op = "close"
    /\ last.message = "true"
    /\ Len(notify) = 1
    /\ ~notify[1].isOpen

====
